---- MODULE Spec2Model ----
(***************************************************************************)
(* Model of check_crab_jobs.py: the reconciliation of the input LFNs of a  *)
(* campaign against the cascade of crab attempts (main,                    *)
(* check_crab_directory, check_job_outputs, load_remote_output).           *)
(*                                                                         *)
(* Strings that the code takes apart or compares by suffix (job ids,       *)
(* block names, remote paths) are sequences of tokens: the digits "0".."9" *)
(* and the fixed pieces "nano_", ".root", "/", "x" and the attempt         *)
(* directory.  An uncaught Python exception ends the interpreter: the      *)
(* model moves to pc = "crashed" and nothing is written afterwards.        *)
(***************************************************************************)
EXTENDS Integers, Sequences, FiniteSets, TLC

\* ------------------------------------------------------------------------
\* Bounds of the model
\* ------------------------------------------------------------------------
\* a run calls check_crab_directory at most MaxCalls times: the number of
\* sample directories times the number of suffices
MaxCalls == 2

SampleNames == <<"s1", "s2", "s3", "s4">>

SuffixNames == <<"", "recovery_1", "recovery_2", "recovery_3">>

\* the command lines: the positional sample directories (sample_name is the
\* basename of an entry) and the option --suffices, zipped with as many
\* --status-files
CommandLines ==
    {[sample_dirs |-> SubSeq(SampleNames, 1, shape[1]),
      suffices |-> SubSeq(SuffixNames, 1, shape[2])] :
        shape \in {sh \in (1..Len(SampleNames)) \X (1..Len(SuffixNames)) :
                        sh[1] * sh[2] <= MaxCalls}}

LFNs == {"A", "B"}

\* keys of job_input_files.json and of status["details"]
JobIds == {<<"1">>, <<"1", "0", "0", "0">>}

\* the lists of LFNs a job may have consumed
InputLists == {<<"A">>, <<"B">>}

JobStates == {"finished", "failed", "running"}

\* answers of the dasgoclient count query, with the default -1
DasAnswers == {-1, 1}

NoneVal == "None"

\* ------------------------------------------------------------------------
\* String helpers
\* ------------------------------------------------------------------------
Digits == <<"0", "1", "2", "3", "4", "5", "6", "7", "8", "9">>

DigitVal(c) == CHOOSE d \in 0..9 : Digits[d + 1] = c

Range(f) == {f[x] : x \in DOMAIN f}

\* int(x) for a string of decimal digits
RECURSIVE int(_)
int(s) ==
    IF Len(s) = 0 THEN 0
    ELSE 10 * int(SubSeq(s, 1, Len(s) - 1)) + DigitVal(s[Len(s)])

\* str(n) for n >= 0
RECURSIVE Str(_)
Str(n) ==
    IF n < 10 THEN <<Digits[n + 1]>>
    ELSE Str(n \div 10) \o <<Digits[(n % 10) + 1]>>

\* f"{i:04d}"
RECURSIVE ZeroPad(_, _)
ZeroPad(s, width) ==
    IF Len(s) >= width THEN s ELSE ZeroPad(<<"0">> \o s, width)

Fmt04(i) == ZeroPad(Str(i), 4)

\* path.endswith(suffix)
EndsWith(path, suffix) ==
    /\ Len(suffix) <= Len(path)
    /\ SubSeq(path, Len(path) - Len(suffix) + 1, Len(path)) = suffix

\* f"nano_{x}.root"
OutName(x) == <<"nano_">> \o x \o <<".root">>

\* os.path.join(a, b)
PathJoin(a, b) == a \o <<"/">> \o b

\* ------------------------------------------------------------------------
\* Paths of one attempt
\* ------------------------------------------------------------------------
\* crab_dirname = f"crab_{sample_name}" + suffix, the suffix given a leading
\* "_" unless it is empty
CrabDirname(sample_name, suffix) ==
    <<"crab_", sample_name>> \o (IF suffix = "" THEN <<>> ELSE <<"_", suffix>>)

\* os.path.abspath(os.path.join(sample_dir, crab_dirname))
AbsCrabDir(sample_name, suffix) ==
    PathJoin(<<"/", "cwd", "/", sample_name>>, CrabDirname(sample_name, suffix))

\* status["task_name"] of a crab task and its part before the first ":"
TaskName == <<"ts", ":", "task">>

RECURSIVE BeforeColon(_)
BeforeColon(s) ==
    IF Len(s) = 0 \/ Head(s) = ":" THEN <<>>
    ELSE <<Head(s)>> \o BeforeColon(Tail(s))

\* wlcg_template.format(...)
WlcgTemplate(sample_name, suffix, time_stamp) ==
    PathJoin(PathJoin(<<"wlcg", "/", sample_name>>,
                      CrabDirname(sample_name, suffix)), time_stamp)

\* range(int(max_jobid/1000)+1) has this many entries
BlockSize == 1000

MaxJobId(job_details) ==
    CHOOSE m \in {int(x) : x \in DOMAIN job_details} :
        \A x \in DOMAIN job_details : int(x) <= m

\* variant: the range ends one block early
NumBlocks_Floor(job_details) == MaxJobId(job_details) \div BlockSize

NumBlocks(job_details) == (MaxJobId(job_details) \div BlockSize) + 1

\* the file names a listing of block i may hold: the outputs of the jobs of
\* that block
RemoteNames(i) ==
    {OutName(j) : j \in {x \in JobIds : int(x) \div BlockSize = i}}


\* load_remote_output: the entries of the listing joined to the path
RemotePaths(wlcg_path, filelist) == {PathJoin(wlcg_path, x) : x \in filelist}

\* ------------------------------------------------------------------------
\* check_job_outputs
\* ------------------------------------------------------------------------
\* variant: the ids are not restricted to those with an output
RelevantIds_Unfiltered(job_details, state, job_outputs) ==
    {x \in DOMAIN job_details : job_details[x].State = state}

\* the job ids with the wanted state, restricted to those with an output
\* when the set of outputs is not empty
RelevantIds(job_details, state, job_outputs) ==
    LET by_state == {x \in DOMAIN job_details : job_details[x].State = state}
    IN  IF job_outputs # {}
        THEN {x \in by_state :
                \E path \in job_outputs : EndsWith(path, OutName(x))}
        ELSE by_state

\* variant: every output is collected once there is a relevant id
FailedOutputs_Unmatched(relevant_ids, job_outputs) ==
    IF relevant_ids # {} THEN job_outputs ELSE {}

\* state == "failed": the outputs that belong to a relevant id
FailedOutputs(relevant_ids, job_outputs) ==
    {p \in job_outputs : \E id \in relevant_ids : EndsWith(p, OutName(id))}

\* state == "finished": set(chain.from_iterable(input_map[x] ...))
FinishedLfns(relevant_ids, input_map) ==
    UNION {Range(input_map[x]) : x \in relevant_ids}

\* variant: the difference is taken for the intersection
Overlap_Difference(collector_set, lfns) == collector_set \ lfns

\* variant: only lfns that are all done already count as an overlap
Overlap_Subset(collector_set, lfns) ==
    IF lfns \subseteq collector_set THEN lfns ELSE {}

\* collector_set.intersection(lfns)
Overlap(collector_set, lfns) == collector_set \cap lfns

\* ------------------------------------------------------------------------
\* check_crab_directory, the sanity checks on the input map
\* ------------------------------------------------------------------------
\* variant: the lfns of one job only
FlatLfns_OneJob(input_map) ==
    Range(input_map[CHOOSE x \in DOMAIN input_map : TRUE])

\* set(chain.from_iterable(input_map.values()))
FlatLfns(input_map) == UNION {Range(input_map[x]) : x \in DOMAIN input_map}

\* variant: the baseline is set for every crab directory
Baseline_Always(known, flat_lfns) == flat_lfns

\* known_lfns after the baseline was set (only when it was empty)
Baseline(known, flat_lfns) == IF known = {} THEN known \cup flat_lfns ELSE known

UnknownLfns(known, flat_lfns) == flat_lfns \ Baseline(known, flat_lfns)

\* variant: the unknown lfns are reported but not added
KnownAfterCheck_NotAdded(known, flat_lfns) == Baseline(known, flat_lfns)

\* known_lfns after the check for unknown lfns: they are added
KnownAfterCheck(known, flat_lfns) ==
    IF UnknownLfns(known, flat_lfns) # {}
    THEN Baseline(known, flat_lfns) \cup flat_lfns
    ELSE Baseline(known, flat_lfns)

\* ------------------------------------------------------------------------
\* main, the report of one sample and the final selection
\* ------------------------------------------------------------------------
\* variant: the union is taken for the symmetric difference
SymmetricDifference_Union(a, b) == a \cup b

\* known_lfns.symmetric_difference(done_lfns)
SymmetricDifference(a, b) == (a \ b) \cup (b \ a)

SampleDict(das_total, known, done, failed_outputs, unprocessed) ==
    [das_total |-> das_total,
     total |-> Cardinality(known),
     done |-> Cardinality(done),
     failed |-> Cardinality(failed_outputs),
     missing |-> Cardinality(unprocessed)]

\* variant: the two tests on das_total joined by "or"
HasMissing_Or(info) ==
    info.missing # 0 \/ (info.das_total # info.total \/ info.das_total # -1)

\* the filter that selects the samples of samples_with_missing_lfns.json
HasMissing(info) ==
    info.missing # 0 \/ (info.das_total # info.total /\ info.das_total # -1)

\* ------------------------------------------------------------------------
\* Inputs
\* ------------------------------------------------------------------------
\* job_input_files.json: None or empty ends check_crab_directory early, so
\* the maps that are processed have at least one job
InputMaps ==
    UNION {[ids -> InputLists] : ids \in (SUBSET JobIds) \ {{}}}

\* status["details"], {} when the status file has no job
JobDetails ==
    UNION {[ids -> [State : JobStates]] : ids \in SUBSET JobIds}

\* status["project_dir"]: missing, the directory of another attempt, or the
\* directory under scrutiny
ProjectDirs(sample_name, suffix) ==
    {NoneVal, AbsCrabDir(sample_name, "stale"), AbsCrabDir(sample_name, suffix)}

StatusFiles(sample_name, suffix) ==
    [project_dir : ProjectDirs(sample_name, suffix),
     task_name : {NoneVal, TaskName},
     details : JobDetails]

\* ------------------------------------------------------------------------
\* State
\* ------------------------------------------------------------------------
VARIABLES
    verbosity,                  \* global verbosity, set by parse_arguments
    sample_dirs,                \* main: sample_dirs
    suffices,                   \* main: suffices
    pc,                         \* position of main
    error,                      \* the exception that ended the run, if any
    sample,                     \* index of the for loop over sample_dirs
    sample_name,                \* main: sample_name
    n_total,                    \* main: n_total
    known_lfns,                 \* main: known_lfns
    done_lfns,                  \* main: done_lfns
    failed_job_outputs,         \* main: failed_job_outputs
    unprocessed_lfns,           \* main: unprocessed_lfns
    attempt,                    \* index of the for loop over suffices
    probed,                     \* how each call of check_crab_directory for
                                \* the current sample returned so far
    input_map,                  \* check_crab_directory: input_map
    unknown_lfns,               \* check_crab_directory: unknown_lfns
    status,                     \* check_crab_directory: status
    job_outputs,                \* check_crab_directory: job_outputs
    block,                      \* check_crab_directory: i of the block loop
    listed,                     \* the paths load_remote_output was called
                                \* with for the current crab directory
    meta_infos,                 \* main: meta_infos
    samples_with_missing_lfns   \* main: samples_with_missing_lfns

main_vars == <<sample, sample_name, n_total, unprocessed_lfns, meta_infos,
               samples_with_missing_lfns>>

acc_vars == <<known_lfns, done_lfns, failed_job_outputs>>

local_vars == <<input_map, unknown_lfns, status, job_outputs, block, listed>>

args == <<verbosity, sample_dirs, suffices>>

vars == <<args, pc, error, main_vars, acc_vars, attempt, probed,
          local_vars>>

NoLocals ==
    /\ input_map' = <<>>
    /\ unknown_lfns' = {}
    /\ status' = NoneVal
    /\ job_outputs' = {}
    /\ block' = 0
    /\ listed' = <<>>

Init ==
    /\ verbosity \in {0, 1}
    /\ \E cmd \in CommandLines :
        /\ sample_dirs = cmd.sample_dirs
        /\ suffices = cmd.suffices
    /\ pc = "sample_loop"
    /\ error = NoneVal
    /\ sample = 1
    /\ sample_name = NoneVal
    /\ n_total = -1
    /\ known_lfns = {}
    /\ done_lfns = {}
    /\ failed_job_outputs = {}
    /\ unprocessed_lfns = {}
    /\ attempt = 1
    /\ probed = <<>>
    /\ input_map = <<>>
    /\ unknown_lfns = {}
    /\ status = NoneVal
    /\ job_outputs = {}
    /\ block = 0
    /\ listed = <<>>
    /\ meta_infos = <<>>
    /\ samples_with_missing_lfns = {}

\* an uncaught exception leaves main: nothing else is executed
Raise(exception) ==
    /\ pc' = "crashed"
    /\ error' = exception

suffix == suffices[attempt]

job_details == status.details

\* ------------------------------------------------------------------------
\* main: the loop over sample_dirs
\* ------------------------------------------------------------------------
\* the sample directory does not exist: continue
SkipSampleDir ==
    /\ pc = "sample_loop"
    /\ sample <= Len(sample_dirs)
    /\ sample' = sample + 1
    /\ UNCHANGED <<args, pc, error, sample_name, n_total,
                   unprocessed_lfns, meta_infos, samples_with_missing_lfns,
                   acc_vars, attempt, probed, local_vars>>

\* the catalog is asked for the lfns (get_dbs_lfns) and, when it returns
\* none, for their number (get_das_information); the sets are set up
StartSample ==
    /\ pc = "sample_loop"
    /\ sample <= Len(sample_dirs)
    /\ sample_name' = sample_dirs[sample]
    /\ \E dbs_lfns \in SUBSET LFNs :
        /\ known_lfns' = dbs_lfns
        /\ IF Cardinality(dbs_lfns) > 0
           THEN n_total' = Cardinality(dbs_lfns)
           ELSE n_total' \in DasAnswers
    /\ done_lfns' = {}
    /\ failed_job_outputs' = {}
    /\ attempt' = 1
    /\ probed' = <<>>
    /\ pc' = "suffix_loop"
    /\ UNCHANGED <<args, error, sample, unprocessed_lfns, meta_infos,
                   samples_with_missing_lfns, local_vars>>

\* ------------------------------------------------------------------------
\* check_crab_directory
\* ------------------------------------------------------------------------
\* the crab directory does not exist, or it has no (or an empty) input map:
\* the function returns, and the loop over the suffices goes on
CrabDirAbsent ==
    /\ pc = "suffix_loop"
    /\ attempt <= Len(suffices)
    /\ probed' = Append(probed, "absent")
    /\ attempt' = attempt + 1
    /\ UNCHANGED <<args, pc, error, main_vars, acc_vars, local_vars>>

\* the input map is loaded and checked against the known lfns
LoadInputMap ==
    /\ pc = "suffix_loop"
    /\ attempt <= Len(suffices)
    /\ \E loaded \in InputMaps :
        /\ input_map' = loaded
        /\ unknown_lfns' = UnknownLfns(known_lfns, FlatLfns(loaded))
        /\ known_lfns' = KnownAfterCheck(known_lfns, FlatLfns(loaded))
    /\ pc' = "status"
    /\ UNCHANGED <<args, error, main_vars, done_lfns, failed_job_outputs,
                   attempt, probed, status, job_outputs, block, listed>>

\* neither <status_file>.json nor status.json exists
StatusFileMissing ==
    /\ pc = "status"
    /\ Raise("NotImplementedError")
    /\ UNCHANGED <<args, main_vars, acc_vars, attempt, probed,
                   local_vars>>

\* check_status without the comparison of the two directories
StatusAccepted_NotNone(loaded) ==
    loaded.project_dir # NoneVal

\* check_status and the checks on what the status holds
StatusAccepted(loaded) ==
    /\ loaded.project_dir # NoneVal
    /\ loaded.project_dir = AbsCrabDir(sample_name, suffix)

\* the status is loaded from one of the two files; it is rejected by
\* check_status, or for its missing task_name, or np.max fails on no job
LoadStatus ==
    /\ pc = "status"
    /\ \E loaded \in StatusFiles(sample_name, suffix) :
        IF ~StatusAccepted(loaded)
        THEN /\ Raise("ValueError: project dir")
             /\ UNCHANGED <<status, block>>
        ELSE IF loaded.task_name = NoneVal
        THEN /\ Raise("ValueError: time stamp")
             /\ status' = loaded
             /\ UNCHANGED block
        ELSE IF DOMAIN loaded.details = {}
        THEN /\ Raise("ValueError: max of empty")
             /\ status' = loaded
             /\ UNCHANGED block
        ELSE /\ status' = loaded
             /\ block' = 0
             /\ pc' = "blocks"
             /\ UNCHANGED error
    /\ UNCHANGED <<args, main_vars, acc_vars, attempt, probed,
                   input_map, unknown_lfns, job_outputs, listed>>

this_wlcg_template ==
    WlcgTemplate(sample_name, suffix, BeforeColon(status.task_name))

\* the path of the block directory that the loop over the blocks lists next
wlcg_path == PathJoin(this_wlcg_template, Fmt04(block))

\* one pass of the loop over the blocks: the block is listed, and every
\* entry of the listing, joined to the path, is added to the outputs
ListBlock ==
    /\ pc = "blocks"
    /\ block < NumBlocks(job_details)
    /\ \E filelist \in SUBSET RemoteNames(block) :
        job_outputs' = job_outputs \cup RemotePaths(wlcg_path, filelist)
    /\ listed' = Append(listed, wlcg_path)
    /\ block' = block + 1
    /\ UNCHANGED <<args, pc, error, main_vars, acc_vars, attempt, probed,
                   input_map, unknown_lfns, status>>

\* variant: the exception of listdir is not caught
BlockUnreachable_Raises ==
    /\ pc = "blocks"
    /\ block < NumBlocks(job_details)
    /\ Raise("GError")
    /\ UNCHANGED <<args, main_vars, acc_vars, attempt, probed, local_vars>>

\* one pass of the loop over the blocks for a block that cannot be listed:
\* gfal2 was not imported, or listdir raised for a path that does not exist;
\* load_remote_output returns the empty list
BlockUnreachable ==
    /\ pc = "blocks"
    /\ block < NumBlocks(job_details)
    /\ job_outputs' = job_outputs \cup RemotePaths(wlcg_path, {})
    /\ listed' = Append(listed, wlcg_path)
    /\ block' = block + 1
    /\ UNCHANGED <<args, pc, error, main_vars, acc_vars, attempt, probed,
                   input_map, unknown_lfns, status>>

\* variant: the failed jobs are classified inside the loop over the blocks
ClassifyFailed_InLoop ==
    /\ pc = "blocks"
    /\ failed_job_outputs' = failed_job_outputs \cup
            FailedOutputs(RelevantIds(job_details, "failed", job_outputs),
                          job_outputs)
    /\ pc' = "finished"
    /\ UNCHANGED <<args, error, main_vars, known_lfns, done_lfns,
                   attempt, probed, local_vars>>

\* check_job_outputs(state="failed")
ClassifyFailed ==
    /\ pc = "blocks"
    /\ block >= NumBlocks(job_details)
    /\ failed_job_outputs' = failed_job_outputs \cup
            FailedOutputs(RelevantIds(job_details, "failed", job_outputs),
                          job_outputs)
    /\ pc' = "finished"
    /\ UNCHANGED <<args, error, main_vars, known_lfns, done_lfns,
                   attempt, probed, local_vars>>

\* variant: the lfns are added before the overlap is looked at
ClassifyFinished_UpdateFirst ==
    /\ pc = "finished"
    /\ LET relevant_ids == RelevantIds(job_details, "finished", job_outputs)
       IN  IF ~(relevant_ids \subseteq DOMAIN input_map)
           THEN /\ Raise("KeyError")
                /\ UNCHANGED done_lfns
           ELSE /\ done_lfns' = done_lfns \cup
                        FinishedLfns(relevant_ids, input_map)
                /\ IF Overlap(done_lfns,
                              FinishedLfns(relevant_ids, input_map)) # {}
                   THEN Raise("ValueError: already done")
                   ELSE pc' = "return" /\ UNCHANGED error
    /\ UNCHANGED <<args, main_vars, known_lfns, failed_job_outputs, attempt,
                   probed, local_vars>>

\* check_job_outputs(state="finished"): a finished job missing from the
\* input map is a KeyError, an lfn that is already done a ValueError
ClassifyFinished ==
    /\ pc = "finished"
    /\ LET relevant_ids == RelevantIds(job_details, "finished", job_outputs)
       IN  IF ~(relevant_ids \subseteq DOMAIN input_map)
           THEN /\ Raise("KeyError")
                /\ UNCHANGED done_lfns
           ELSE IF Overlap(done_lfns,
                           FinishedLfns(relevant_ids, input_map)) # {}
           THEN /\ Raise("ValueError: already done")
                /\ UNCHANGED done_lfns
           ELSE /\ done_lfns' = done_lfns \cup
                        FinishedLfns(relevant_ids, input_map)
                /\ pc' = "return"
                /\ UNCHANGED error
    /\ UNCHANGED <<args, main_vars, known_lfns, failed_job_outputs, attempt,
                   probed, local_vars>>

\* check_crab_directory returns after the two classifications: its local
\* names are gone and the loop over the suffices goes on
ReturnChecked ==
    /\ pc = "return"
    /\ probed' = Append(probed, "checked")
    /\ attempt' = attempt + 1
    /\ pc' = "suffix_loop"
    /\ NoLocals
    /\ UNCHANGED <<args, error, main_vars, acc_vars>>

\* ------------------------------------------------------------------------
\* main: the report
\* ------------------------------------------------------------------------
\* after the loop over the suffices: the entry of the sample in meta_infos
Report ==
    /\ pc = "suffix_loop"
    /\ attempt > Len(suffices)
    /\ unprocessed_lfns' = SymmetricDifference(known_lfns, done_lfns)
    /\ meta_infos' =
        [n \in DOMAIN meta_infos \cup {sample_name} |->
            IF n = sample_name
            THEN SampleDict(n_total, known_lfns, done_lfns,
                            failed_job_outputs, unprocessed_lfns')
            ELSE meta_infos[n]]
    /\ sample' = sample + 1
    /\ pc' = "sample_loop"
    /\ UNCHANGED <<args, error, sample_name, n_total,
                   samples_with_missing_lfns, acc_vars, attempt, probed,
                   local_vars>>

\* after the loop over the samples: the summary is written and the samples
\* with missing lfns are selected
Summary ==
    /\ pc = "sample_loop"
    /\ sample > Len(sample_dirs)
    /\ samples_with_missing_lfns' =
        {x \in DOMAIN meta_infos : HasMissing(meta_infos[x])}
    /\ pc' = "done"
    /\ UNCHANGED <<args, error, sample, sample_name, n_total,
                   unprocessed_lfns, meta_infos, acc_vars, attempt, probed,
                   local_vars>>

Next ==
    \/ SkipSampleDir
    \/ StartSample
    \/ CrabDirAbsent
    \/ LoadInputMap
    \/ StatusFileMissing
    \/ LoadStatus
    \/ ListBlock
    \/ BlockUnreachable
    \/ ClassifyFailed
    \/ ClassifyFinished
    \/ ReturnChecked
    \/ Report
    \/ Summary

Spec == Init /\ [][Next]_vars

\* ------------------------------------------------------------------------
\* The loop over the blocks on its own
\* ------------------------------------------------------------------------
\* job ids on both sides of the block boundaries
BlockJobNumbers == {1, 999, 1000, 1999, 2500, 3000}

BlockJobIds == {Str(n) : n \in BlockJobNumbers}

\* check_crab_directory for the first crab directory of the first sample,
\* right after the status passed its checks, for a task with any of the
\* job ids above
InitBlocks ==
    /\ verbosity \in {0, 1}
    /\ sample_dirs = SubSeq(SampleNames, 1, 1)
    /\ suffices = SubSeq(SuffixNames, 1, 1)
    /\ pc = "blocks"
    /\ error = NoneVal
    /\ sample = 1
    /\ sample_name = sample_dirs[1]
    /\ n_total = -1
    /\ done_lfns = {}
    /\ failed_job_outputs = {}
    /\ unprocessed_lfns = {}
    /\ attempt = 1
    /\ probed = <<>>
    /\ \E ids \in (SUBSET BlockJobIds) \ {{}} :
        /\ \E lfn \in LFNs : input_map = [x \in ids |-> <<lfn>>]
        /\ status = [project_dir |-> AbsCrabDir(sample_name, suffices[1]),
                     task_name |-> TaskName,
                     details |-> [x \in ids |-> [State |-> "finished"]]]
    /\ known_lfns = KnownAfterCheck({}, FlatLfns(input_map))
    /\ unknown_lfns = UnknownLfns({}, FlatLfns(input_map))
    /\ job_outputs = {}
    /\ block = 0
    /\ listed = <<>>
    /\ meta_infos = <<>>
    /\ samples_with_missing_lfns = {}

NextBlocks ==
    \/ ListBlock
    \/ BlockUnreachable
    \/ ClassifyFailed

SpecBlocks == InitBlocks /\ [][NextBlocks]_vars

\* ------------------------------------------------------------------------
\* Properties
\* ------------------------------------------------------------------------
\* the jobs of the loaded status that declare the state st
JobsInState(st) == {x \in DOMAIN status.details : status.details[x].State = st}

\* some path of the listed outputs ends with nano_<x>.root
HasOutput(x) == \E p \in job_outputs : EndsWith(p, OutName(x))

\* the listed outputs hold a file named nano_<x>.root
HasOutputFile(x) == \E p \in job_outputs : EndsWith(p, <<"/">> \o OutName(x))

\* the finished jobs that check_job_outputs(state="finished") selects
SelectedFinished ==
    {x \in JobsInState("finished") : job_outputs = {} \/ HasOutput(x)}

\* the report of the sample that was handled last is in meta_infos and the
\* three sets still hold what it was computed from
Reported == pc \in {"sample_loop", "done"} /\ sample_name # NoneVal

\* C1: for every sample, whatever the input maps, job states, listings and
\* catalog answer, the done lfns are a subset of the known lfns after every
\* step of every attempt, and the reported done count is at most the total.
C1_DoneSubsetOfKnown ==
    /\ done_lfns \subseteq known_lfns
    /\ \A n \in DOMAIN meta_infos : meta_infos[n].done <= meta_infos[n].total

\* reached: the second attempt brought an lfn that was not known after the
\* first, both attempts have been classified and all lfns are done
C1_Witness ==
    /\ pc = "return"
    /\ attempt = 2
    /\ n_total = 1
    /\ unknown_lfns # {}
    /\ done_lfns = LFNs

\* C2: the reported missing set is the known lfns without the done ones, the
\* missing count is total minus done, and nothing is missing exactly when
\* every known lfn is done.
C2_MissingIsKnownMinusDone ==
    Reported =>
        /\ unprocessed_lfns = known_lfns \ done_lfns
        /\ meta_infos[sample_name].missing =
                meta_infos[sample_name].total - meta_infos[sample_name].done
        /\ (unprocessed_lfns = {}) <=> (\A l \in known_lfns : l \in done_lfns)
        /\ (meta_infos[sample_name].missing = 0) <=> (known_lfns \subseteq done_lfns)

\* reached: a report with one lfn done and one missing
C2_Witness ==
    /\ Reported
    /\ done_lfns # {}
    /\ unprocessed_lfns # {}
    /\ meta_infos[sample_name].missing = 1

\* C3: when the input lfns of the selected finished jobs meet the lfns that
\* are already done, the classification raises the ValueError and adds
\* nothing to the done lfns.
C3_DuplicateDoneRaises ==
    [][(/\ pc = "finished"
        /\ SelectedFinished \subseteq DOMAIN input_map
        /\ \E x \in SelectedFinished :
                Range(input_map[x]) \cap done_lfns # {})
        => (/\ pc' = "crashed"
            /\ error' = "ValueError: already done"
            /\ done_lfns' = done_lfns)]_vars

\* reached: the second attempt presented a finished job whose lfn was done
\* by the first, and the run ended on the ValueError
C3_Witness ==
    /\ pc = "crashed"
    /\ error = "ValueError: already done"
    /\ attempt = 2
    /\ probed = <<"checked">>
    /\ \E x \in SelectedFinished : Range(input_map[x]) \subseteq done_lfns

\* C4 as stated: whatever the listing returned, also nothing at all, every
\* lfn that the classification of the finished jobs adds to the done lfns
\* is an input of a finished job whose file nano_<jobid>.root is listed.
C4_Original ==
    [][pc = "finished" =>
        \A l \in done_lfns' \ done_lfns :
            \E x \in JobsInState("finished") \cap DOMAIN input_map :
                l \in Range(input_map[x]) /\ HasOutputFile(x)]_vars

\* C4 amended: when the listing returned at least one path, every lfn that
\* the classification of the finished jobs adds to the done lfns is an input
\* of a finished job with a listed path ending with nano_<jobid>.root.
C4_FinishedWithoutOutputNotDone ==
    [][(pc = "finished" /\ job_outputs # {}) =>
        \A l \in done_lfns' \ done_lfns :
            \E x \in JobsInState("finished") \cap DOMAIN input_map :
                l \in Range(input_map[x]) /\ HasOutput(x)]_vars

\* reached: both classifications ran on a listing that is not empty, and the
\* lfn of a finished job without output is not done
C4_Witness ==
    /\ pc = "return"
    /\ job_outputs # {}
    /\ \E x \in JobsInState("finished") \cap DOMAIN input_map :
            ~HasOutput(x) /\ Range(input_map[x]) \cap done_lfns = {}

\* C5: every path that enters failed_job_outputs enters it in the
\* classification of the failed jobs, was listed for the attempt and ends
\* with nano_<id>.root for a job of the attempt that declares "failed".
C5_AnomalousOutputsJustified ==
    [][\A p \in failed_job_outputs' \ failed_job_outputs :
            /\ pc = "blocks"
            /\ p \in job_outputs
            /\ \E x \in JobsInState("failed") : EndsWith(p, OutName(x))]_vars

\* reached: of two failed jobs one has its output listed and the other has
\* not, and exactly the listed output was collected
C5_Witness ==
    /\ pc = "finished"
    /\ Cardinality(JobsInState("failed")) = 2
    /\ \E x \in JobsInState("failed") : ~HasOutput(x)
    /\ Cardinality(failed_job_outputs) = 1

\* C6 as stated: a run that ended on one of the fatal errors of a sample
\* left no sample of sample_dirs unreconciled.
C6_Original ==
    (/\ pc = "crashed"
     /\ error \in {"ValueError: already done", "ValueError: project dir",
                   "NotImplementedError", "ValueError: time stamp"})
        => sample = Len(sample_dirs)

\* C7 as stated: the sample whose reconciliation ended on an error has its
\* entry, with the counts obtained so far, in the final report.
C7_Original ==
    pc = "crashed" => sample_name \in DOMAIN meta_infos

\* C8 as stated: once a call of check_crab_directory returned because the
\* directory or the input map was absent, no later suffix of the sample is
\* probed, loaded or classified.
C8_Original ==
    \A i \in 1..Len(probed) :
        probed[i] = "absent" =>
            /\ Len(probed) = i
            /\ pc \notin {"status", "blocks", "finished", "return"}

\* the selection as the report states it
NeedsAttention(info) ==
    info.missing # 0 \/ (info.das_total # -1 /\ info.das_total # info.total)

\* C9: a sample is in samples_with_missing_lfns exactly when its missing
\* count is not 0 or its das_total is neither -1 nor its total; das_total is
\* what the catalog answered when the sample was started.
C9_NeedsAttentionSelection ==
    /\ Reported => meta_infos[sample_name].das_total = n_total
    /\ pc = "done" =>
        \A n \in Range(sample_dirs) :
            n \in samples_with_missing_lfns <=>
                (n \in DOMAIN meta_infos /\ NeedsAttention(meta_infos[n]))

\* reached: of two reported samples one is selected with nothing missing,
\* for its das_total alone, and the other is not selected
C9_Witness ==
    /\ pc = "done"
    /\ \E n \in samples_with_missing_lfns : meta_infos[n].missing = 0
    /\ \E n \in DOMAIN meta_infos : n \notin samples_with_missing_lfns

\* C10 as stated, the strict mode taken to be the default verbosity 0, whose
\* branch builds the error message: an attempt whose input map holds an lfn
\* that is not known, in an attempt after the first, is not processed any
\* further.
C10_Original ==
    (verbosity = 0 /\ attempt > 1 /\ unknown_lfns # {})
        => pc \notin {"status", "blocks", "finished", "return"}

\* C11: a status without project_dir, or with a project_dir that is not the
\* absolute path of the crab directory, ends the run before a job is
\* classified: past the loading of the status the project_dir is always the
\* absolute path of the crab directory of this attempt, and a step of an
\* attempt changes done_lfns or failed_job_outputs only under such a status
C11_MismatchNeverClassified ==
    /\ [](pc \in {"blocks", "finished", "return"} =>
            /\ status.project_dir # NoneVal
            /\ status.project_dir =
                    AbsCrabDir(sample_name, suffices[attempt]))
    /\ [][(/\ pc # "sample_loop"
           /\ \/ done_lfns' # done_lfns
              \/ failed_job_outputs' # failed_job_outputs)
          => /\ pc \in {"blocks", "finished"}
             /\ status.project_dir =
                    AbsCrabDir(sample_name, suffices[attempt])]_vars

\* a second attempt ended on the project_dir of its status, and what the
\* first attempt marked as done is all that is done
C11_Witness ==
    /\ pc = "crashed"
    /\ error = "ValueError: project dir"
    /\ attempt = 2
    /\ probed = <<"checked">>
    /\ done_lfns # {}
    /\ done_lfns # known_lfns
    /\ job_outputs = {}
    /\ listed = <<>>

\* the last path component of a block directory
BlockName(path) == SubSeq(path, Len(path) - 3, Len(path))

\* C12: for the largest job id M, the loop lists floor(M/1000)+1 block
\* directories: the k-th listed path is the directory of the attempt joined
\* to the four-digit zero-padded k-1, so each block is listed once and in
\* order; when the loop is over the block floor(j/1000) of every job id j is
\* among them, and for M = 2500 the blocks are 0000, 0001 and 0002
C12_BlocksProbed ==
    pc \in {"blocks", "finished"} =>
        LET M == MaxJobId(job_details)
            names == [k \in DOMAIN listed |-> BlockName(listed[k])]
        IN  /\ Len(listed) = block
            /\ Len(listed) <= (M \div 1000) + 1
            /\ \A k \in DOMAIN listed :
                /\ listed[k] = this_wlcg_template \o <<"/">> \o names[k]
                /\ Len(names[k]) = 4
                /\ \A d \in DOMAIN names[k] : names[k][d] \in Range(Digits)
                /\ int(names[k]) = k - 1
            /\ pc = "finished" =>
                /\ Len(listed) = (M \div 1000) + 1
                /\ \A j \in DOMAIN job_details :
                        (int(j) \div 1000) + 1 \in DOMAIN listed
                /\ M = 2500 =>
                        names = << <<"0", "0", "0", "0">>,
                                   <<"0", "0", "0", "1">>,
                                   <<"0", "0", "0", "2">> >>

\* the listing is over for a task whose largest job id is 2500, with a job
\* in the first block as well
C12_Witness ==
    /\ pc = "finished"
    /\ MaxJobId(job_details) = 2500
    /\ <<"1">> \in DOMAIN job_details
    /\ Len(listed) = 3

\* C13 as stated: whenever two distinct finished jobs whose files are
\* listed name the same input lfn, in this attempt, or a finished job whose
\* file is listed names an lfn that is done since an earlier attempt, the
\* classification raises the ValueError.
C13_Original ==
    [][(/\ pc = "finished"
        /\ SelectedFinished \subseteq DOMAIN input_map
        /\ \E x \in SelectedFinished :
            /\ HasOutputFile(x)
            /\ \/ Range(input_map[x]) \cap done_lfns # {}
               \/ \E y \in SelectedFinished \ {x} :
                    /\ HasOutputFile(y)
                    /\ Range(input_map[x]) \cap Range(input_map[y]) # {})
        => (/\ pc' = "crashed"
            /\ error' = "ValueError: already done")]_vars

\* C13 amended: a classification of the finished jobs that changes the done
\* lfns adds the input lfns of the selected jobs, none of which was done
\* before; and when none of them was done before, it raises nothing and
\* adds their union, also when two of the jobs name the same lfn.
C13_NoLfnDoneTwice ==
    [][pc = "finished" /\ SelectedFinished \subseteq DOMAIN input_map =>
        LET lfns == UNION {Range(input_map[x]) : x \in SelectedFinished}
        IN  /\ done_lfns' # done_lfns => lfns \cap done_lfns = {}
            /\ lfns \cap done_lfns = {} =>
                /\ pc' = "return"
                /\ done_lfns' = done_lfns \cup lfns]_vars

\* reached: two finished jobs of one attempt, the files of both listed,
\* name the same lfn, and the attempt was classified with the lfn done
C13_Witness ==
    /\ pc = "return"
    /\ \E x \in SelectedFinished : \E y \in SelectedFinished \ {x} :
        /\ HasOutputFile(x)
        /\ HasOutputFile(y)
        /\ input_map[x] = input_map[y]
        /\ Range(input_map[x]) \subseteq done_lfns

\* C14: every step of the cascade of one sample, be it a crab directory
\* that is skipped, the baseline, the admission of unknown lfns, one of the
\* two classifications or a step that raises, leaves each of known_lfns,
\* done_lfns and failed_job_outputs a superset of what it was.
C14_SetsOnlyGrow ==
    [][pc # "sample_loop" =>
        /\ known_lfns \subseteq known_lfns'
        /\ done_lfns \subseteq done_lfns'
        /\ failed_job_outputs \subseteq failed_job_outputs']_vars

\* reached: in its second crab directory a sample with lfns from the
\* catalog met an lfn that was not known, there is an output of a failed
\* job, and the admitted lfn is done along with the lfns of the catalog
C14_Witness ==
    /\ pc = "return"
    /\ probed = <<"checked">>
    /\ n_total = Cardinality(known_lfns \ unknown_lfns)
    /\ unknown_lfns # {}
    /\ failed_job_outputs # {}
    /\ done_lfns = known_lfns

\* C15: with no lfn from the catalog and only skipped crab directories so
\* far, known_lfns is empty, stays empty when the next directory is skipped
\* too, and is exactly the lfns of all jobs of the input map once a
\* directory with an input map is loaded.
C15_BaselineFromFirstMap ==
    [][(/\ pc = "suffix_loop"
        /\ known_lfns = {}
        /\ \A k \in DOMAIN probed : probed[k] = "absent")
        => IF pc' = "status"
           THEN known_lfns' =
                    UNION {Range(input_map'[x]) : x \in DOMAIN input_map'}
           ELSE known_lfns' = {}]_vars

\* reached: the catalog and DAS gave nothing, the first crab directory was
\* skipped, and the input map of the second, with two lfns, is the baseline
C15_Witness ==
    /\ pc = "status"
    /\ probed = <<"absent">>
    /\ n_total = -1
    /\ Cardinality(DOMAIN input_map) = 2
    /\ known_lfns = LFNs
    /\ done_lfns = {}

\* C16: in one crab directory the listings of all blocks are merged first,
\* then the failed jobs are classified, then the finished jobs, both with
\* the same merged listing; the crab directories of a sample are handled one
\* after the other in the order of the suffices.
C16_FixedOrder ==
    [][/\ (pc # "finished" /\ pc' = "finished") =>
            /\ pc = "blocks"
            /\ Len(listed) = (MaxJobId(job_details) \div 1000) + 1
            /\ job_outputs' = job_outputs
            /\ done_lfns' = done_lfns
       /\ pc = "finished" =>
            /\ pc' \in {"return", "crashed"}
            /\ job_outputs' = job_outputs
            /\ listed' = listed
            /\ failed_job_outputs' = failed_job_outputs
       /\ (pc = "blocks" /\ pc' = "blocks") =>
            /\ Len(listed') = Len(listed) + 1
            /\ failed_job_outputs' = failed_job_outputs
            /\ done_lfns' = done_lfns
       /\ (pc # "sample_loop" /\ failed_job_outputs' # failed_job_outputs) =>
            (pc = "blocks" /\ pc' = "finished")
       /\ (pc # "sample_loop" /\ done_lfns' # done_lfns) =>
            (pc = "finished" /\ pc' = "return")
       /\ attempt' # attempt =>
            \/ pc = "sample_loop" /\ attempt' = 1
            \/ /\ pc \in {"suffix_loop", "return"}
               /\ pc' = "suffix_loop"
               /\ attempt' = attempt + 1]_vars

\* reached: the second crab directory of a sample went through the listing
\* of two blocks, both with a file, and through both classifications, which
\* found an output of a failed job and a new done lfn
C16_Witness ==
    /\ pc = "return"
    /\ attempt = 2
    /\ Len(listed) = 2
    /\ Cardinality(job_outputs) = 2
    /\ failed_job_outputs # {}
    /\ Cardinality(done_lfns) = 2
    /\ JobsInState("finished") # {}

\* the listed outputs that lie in the k-th listed block directory
OutputsOfBlock(k) ==
    {p \in job_outputs :
        /\ Len(p) > Len(listed[k])
        /\ SubSeq(p, 1, Len(listed[k]) + 1) = listed[k] \o <<"/">>}

\* C17: while blocks remain, a pass of the loop over the blocks, whatever
\* the listing gave (nothing for an empty block or one that cannot be
\* listed), raises nothing, keeps the outputs merged so far, adds only
\* paths of the block it listed and goes on with the next block; after the
\* last block the failed jobs are classified.
C17_UnreachableBlockSkipped ==
    [][pc = "blocks" =>
        IF Len(listed) < (MaxJobId(job_details) \div 1000) + 1
        THEN /\ pc' = "blocks"
             /\ error' = error
             /\ Len(listed') = Len(listed) + 1
             /\ job_outputs \subseteq job_outputs'
             /\ \A p \in job_outputs' \ job_outputs :
                    SubSeq(p, 1, Len(listed'[Len(listed')]) + 1) =
                        listed'[Len(listed')] \o <<"/">>
        ELSE pc' = "finished"]_vars

\* reached: the first block gave nothing although a job of it is in the
\* status, the second block was listed all the same, its file is among the
\* outputs, and the failed jobs were classified with it
C17_Witness ==
    /\ pc = "finished"
    /\ Len(listed) = 2
    /\ <<"1">> \in DOMAIN job_details
    /\ OutputsOfBlock(1) = {}
    /\ OutputsOfBlock(2) # {}
    /\ failed_job_outputs = OutputsOfBlock(2)

\* C18: the step on which the classification of the finished jobs raises
\* the ValueError for lfns that are already done changes none of the three
\* sets: done_lfns holds none of the lfns of this crab directory that it did
\* not hold before, known_lfns keeps the lfns this directory added and
\* failed_job_outputs the outputs it added.
C18_ViolationLeavesSets ==
    [][(pc = "finished" /\ error' = "ValueError: already done") =>
        /\ done_lfns' = done_lfns
        /\ known_lfns' = known_lfns
        /\ unknown_lfns \subseteq known_lfns'
        /\ failed_job_outputs' = failed_job_outputs]_vars

\* reached: the second crab directory brought an lfn that was not known and
\* a finished job for it, next to a finished job whose lfn was done already;
\* the run ended on the ValueError, the new lfn is known and is not done
C18_Witness ==
    /\ pc = "crashed"
    /\ error = "ValueError: already done"
    /\ probed = <<"checked">>
    /\ unknown_lfns # {}
    /\ unknown_lfns \subseteq known_lfns
    /\ \E x \in SelectedFinished :
        /\ Range(input_map[x]) = unknown_lfns
        /\ Range(input_map[x]) \cap done_lfns = {}

\* reached as well: the crab directory that ended on the ValueError had
\* added the output of a failed job before
C18_WitnessFailedOutput ==
    /\ pc = "crashed"
    /\ error = "ValueError: already done"
    /\ failed_job_outputs # {}
    /\ failed_job_outputs \subseteq job_outputs

====
